---------------------------- MODULE Spec2Model ----------------------------
(*
  A model of neural_networks.py: the MLP class (construction, forward,
  backward with its in-place gradient-descent update), generate_data, and
  the call sequence that visualize/update drive on one MLP instance.

  Numbers.  numpy's float64 values are modelled as decimal fixed-point
  integers: the integer k stands for k / Scale, Scale = 10^Digits.  A
  product or quotient is rounded to the nearest representable value, as a
  floating-point operation rounds its exact result.  np.exp (and np.tanh,
  which is (e^2x - 1)/(e^2x + 1)) is modelled by a positive, monotone
  rational approximation with Exp(0) = 1 and Exp(-t) = 1/Exp(t).

  Arrays.  A 2-D ndarray is a non-empty sequence of rows of equal length.
  The shape checks of np.dot, of broadcasting and of the in-place -= are
  modelled; a failed check is the ValueError numpy raises.  An attribute
  that has not been assigned yet is the empty sequence <<>>, and reading it
  is the AttributeError Python raises.
*)
EXTENDS Integers, Sequences, FiniteSets, TLC

\* ---------------------------------------------------------------- bounds
Digits == 2             \* decimal digits kept after the point
MaxRows == 3            \* largest batch (row count) a caller passes
MaxCalls == 3           \* calls (constructor included) in one API run
MaxFrames == 2          \* frames an animation is asked to render
NSamples == 2           \* rows of the training batch in the animation (100 in the code)
GridN == 2              \* points per axis of the plotting grid (100 in the code)

\* -------------------------------------------------------------- numbers
Scale == 10 ^ Digits
One == Scale
\* n / d rounded to the nearest integer (d > 0)
Rnd(n, d) == (2 * n + d) \div (2 * d)
\* a decimal literal given in thousandths
Milli(k) == Rnd(k * Scale, 1000)
Mul(a, b) == Rnd(a * b, Scale)
Max(a, b) == IF a >= b THEN a ELSE b
Min(a, b) == IF a <= b THEN a ELSE b

ExpPos(t) == Scale + t + Rnd(t * t, 2 * Scale)
Exp(x) ==
  LET t == Max(Min(x, 8 * Scale), 0 - 8 * Scale)
  IN  IF t >= 0 THEN ExpPos(t) ELSE Rnd(Scale * Scale, ExpPos(0 - t))
Tanh(x) == LET e == Exp(2 * x) IN Rnd((e - Scale) * Scale, e + Scale)

\* --------------------------------------------------------------- arrays
Rows(A) == Len(A)
Cols(A) == Len(A[1])
shape(A) == <<Rows(A), Cols(A)>>
zeros(r, c) == [i \in 1..r |-> [j \in 1..c |-> 0]]
T(A) == [j \in 1..Cols(A) |-> [i \in 1..Rows(A) |-> A[i][j]]]

RECURSIVE SumTo(_, _)
SumTo(f, n) == IF n = 0 THEN 0 ELSE SumTo(f, n - 1) + f[n]

\* np.dot(A, B) of 2-D arrays: defined when A's columns match B's rows
DotOk(A, B) == Cols(A) = Rows(B)
dot(A, B) ==
  [i \in 1..Rows(A) |-> [j \in 1..Cols(B) |->
     SumTo([k \in 1..Cols(A) |-> Mul(A[i][k], B[k][j])], Cols(A))]]

\* numpy broadcasting of two 2-D shapes: per axis equal, or one of them 1
AxisOk(m, n) == m = n \/ m = 1 \/ n = 1
Broadcastable(A, B) == AxisOk(Rows(A), Rows(B)) /\ AxisOk(Cols(A), Cols(B))
BShape(A, B) == <<Max(Rows(A), Rows(B)), Max(Cols(A), Cols(B))>>
At(A, i, j) == A[IF Rows(A) = 1 THEN 1 ELSE i][IF Cols(A) = 1 THEN 1 ELSE j]
BAdd(A, B) == [i \in 1..BShape(A, B)[1] |-> [j \in 1..BShape(A, B)[2] |->
                 At(A, i, j) + At(B, i, j)]]
BSub(A, B) == [i \in 1..BShape(A, B)[1] |-> [j \in 1..BShape(A, B)[2] |->
                 At(A, i, j) - At(B, i, j)]]
BMul(A, B) == [i \in 1..BShape(A, B)[1] |-> [j \in 1..BShape(A, B)[2] |->
                 Mul(At(A, i, j), At(B, i, j))]]
\* A -= B: the broadcast result has to fit the array that is written
InPlaceOk(A, B) == Broadcastable(A, B) /\ BShape(A, B) = shape(A)
\* np.sum(A, axis=0, keepdims=True)
sum_axis0(A) == << [j \in 1..Cols(A) |->
                     SumTo([i \in 1..Rows(A) |-> A[i][j]], Rows(A))] >>
\* A / m for an integer m, and s * A for a scalar s
DivBy(A, m) == [i \in 1..Rows(A) |-> [j \in 1..Cols(A) |-> Rnd(A[i][j], m)]]
Times(s, A) == [i \in 1..Rows(A) |-> [j \in 1..Cols(A) |-> Mul(s, A[i][j])]]

\* ------------------------------------------------------ random numbers
\* np.random.seed(0); np.random.randn(...): the first draws of the seeded
\* generator, in thousandths, handed out in row-major order.
RandnMilli == << 1764, 400, 979, 2241, 1868, -977, 950, -151, -103, 411,
                 144, 1454, 761, 122, 444, 334, 1494, -205, 313, -854 >>
randn(r, c, skip) ==
  [i \in 1..r |-> [j \in 1..c |-> Milli(RandnMilli[skip + (i - 1) * c + j])]]

\* ----------------------------------------------------------- class MLP
Unset == <<>>
NoGradients == [dW1 |-> Unset, db1 |-> Unset, dW2 |-> Unset, db2 |-> Unset]
Kinds == {"tanh", "relu", "sigmoid"}

\* self.activation and self.activation_prime, on one element
activation(kind, x) ==
  CASE kind = "tanh" -> Tanh(x)
    [] kind = "relu" -> Max(0, x)
    [] kind = "sigmoid" -> Rnd(One * One, One + Exp(0 - x))

\* faulty variant: relu's derivative taken as 1 at 0 (x >= 0)
relu_prime_ge(kind, x) ==
  CASE kind = "tanh" -> One - Mul(Tanh(x), Tanh(x))
    [] kind = "relu" -> IF x >= 0 THEN One ELSE 0
    [] kind = "sigmoid" -> Mul(activation(kind, x), One - activation(kind, x))

activation_prime(kind, x) ==
  CASE kind = "tanh" -> One - Mul(Tanh(x), Tanh(x))
    [] kind = "relu" -> IF x > 0 THEN One ELSE 0
    [] kind = "sigmoid" -> Mul(activation(kind, x), One - activation(kind, x))

act(kind, A) ==
  [i \in 1..Rows(A) |-> [j \in 1..Cols(A) |-> activation(kind, A[i][j])]]
act_prime(kind, A) ==
  [i \in 1..Rows(A) |-> [j \in 1..Cols(A) |-> activation_prime(kind, A[i][j])]]

\* the name an instance would be bound to, while no constructor has returned
NoInstance ==
  [lr |-> 0, activation_fn |-> "", W1 |-> Unset, b1 |-> Unset, W2 |-> Unset,
   b2 |-> Unset, z1 |-> Unset, a1 |-> Unset, z2 |-> Unset, a2 |-> Unset,
   gradients |-> NoGradients]

\* what a call leaves behind: the instance, the exception, the return value
Outcome(self, raised, ret) == [self |-> self, raised |-> raised, ret |-> ret]

\* faulty variant: an unknown activation falls back to tanh instead of raising
init_unchecked(input_dim, hidden_dim, output_dim, lr, activation_fn) ==
  Outcome([NoInstance EXCEPT
             !.lr = lr,
             !.activation_fn = IF activation_fn \in Kinds THEN activation_fn ELSE "tanh",
             !.W1 = randn(input_dim, hidden_dim, 0),
             !.b1 = zeros(1, hidden_dim),
             !.W2 = randn(hidden_dim, output_dim, input_dim * hidden_dim),
             !.b2 = zeros(1, output_dim)],
          "none", Unset)

\* MLP.__init__: a raise leaves the caller without an instance
MLP(input_dim, hidden_dim, output_dim, lr, activation_fn) ==
  IF activation_fn \notin Kinds
  THEN Outcome(NoInstance, "ValueError", Unset)
  ELSE Outcome([NoInstance EXCEPT
                  !.lr = lr,
                  !.activation_fn = activation_fn,
                  !.W1 = randn(input_dim, hidden_dim, 0),
                  !.b1 = zeros(1, hidden_dim),
                  !.W2 = randn(hidden_dim, output_dim, input_dim * hidden_dim),
                  !.b2 = zeros(1, output_dim)],
               "none", Unset)

\* faulty variant: the activation is applied in place, so z1 and z2 alias a1 and a2
forward_inplace(self, X) ==
  IF ~DotOk(X, self.W1)
  THEN Outcome(self, "ValueError", Unset)
  ELSE LET z1 == BAdd(dot(X, self.W1), self.b1)
           a1 == act(self.activation_fn, z1)
           z2 == BAdd(dot(a1, self.W2), self.b2)
           a2 == act(self.activation_fn, z2)
       IN  Outcome([self EXCEPT !.z1 = a1, !.a1 = a1, !.z2 = a2, !.a2 = a2],
                   "none", a2)

\* faulty variant: the output activation is taken from z1 instead of z2
forward_hidden_out(self, X) ==
  IF ~DotOk(X, self.W1)
  THEN Outcome(self, "ValueError", Unset)
  ELSE LET z1 == BAdd(dot(X, self.W1), self.b1)
           a1 == act(self.activation_fn, z1)
           z2 == BAdd(dot(a1, self.W2), self.b2)
           a2 == act(self.activation_fn, z1)
       IN  Outcome([self EXCEPT !.z1 = z1, !.a1 = a1, !.z2 = z2, !.a2 = a2],
                   "none", a2)

\* MLP.forward
forward(self, X) ==
  IF ~DotOk(X, self.W1)
  THEN Outcome(self, "ValueError", Unset)
  ELSE LET z1 == BAdd(dot(X, self.W1), self.b1)
           a1 == act(self.activation_fn, z1)
           z2 == BAdd(dot(a1, self.W2), self.b2)
           a2 == act(self.activation_fn, z2)
       IN  Outcome([self EXCEPT !.z1 = z1, !.a1 = a1, !.z2 = z2, !.a2 = a2],
                   "none", a2)

\* MLP.backward, lines 50-55: the output layer's gradients
output_grads(self, X, y) ==
  LET m == Rows(X)
      none == [raised |-> "none", delta2 |-> Unset, dW2 |-> Unset, db2 |-> Unset]
  IN  IF self.a2 = Unset THEN [none EXCEPT !.raised = "AttributeError"]
      ELSE IF ~Broadcastable(self.a2, y) THEN [none EXCEPT !.raised = "ValueError"]
      ELSE LET delta2 == BSub(self.a2, y)
           IN  IF ~DotOk(T(self.a1), delta2) THEN [none EXCEPT !.raised = "ValueError"]
               ELSE [raised |-> "none", delta2 |-> delta2,
                     dW2 |-> DivBy(dot(T(self.a1), delta2), m),
                     db2 |-> DivBy(sum_axis0(delta2), m)]

\* MLP.backward, lines 58-60: the hidden layer's gradients
hidden_grads(self, X, delta2) ==
  LET m == Rows(X)
      none == [raised |-> "none", dW1 |-> Unset, db1 |-> Unset]
  IN  IF ~DotOk(delta2, T(self.W2)) THEN [none EXCEPT !.raised = "ValueError"]
      ELSE LET back == dot(delta2, T(self.W2))
               prime == act_prime(self.activation_fn, self.z1)
           IN  IF ~Broadcastable(back, prime) THEN [none EXCEPT !.raised = "ValueError"]
               ELSE LET delta1 == BMul(back, prime)
                    IN  IF ~DotOk(T(X), delta1) THEN [none EXCEPT !.raised = "ValueError"]
                        ELSE [raised |-> "none",
                              dW1 |-> DivBy(dot(T(X), delta1), m),
                              db1 |-> DivBy(sum_axis0(delta1), m)]

\* one in-place step, self.P -= self.lr * dP
step(P, lr, dP) == BSub(P, Times(lr, dP))

\* faulty variant: W1 is stepped with += instead of -=
update_plus_W1(self, g) ==
  IF ~InPlaceOk(self.W2, g.dW2) THEN Outcome(self, "ValueError", Unset)
  ELSE LET s1 == [self EXCEPT !.W2 = step(self.W2, self.lr, g.dW2)]
  IN  IF ~InPlaceOk(s1.b2, g.db2) THEN Outcome(s1, "ValueError", Unset)
  ELSE LET s2 == [s1 EXCEPT !.b2 = step(s1.b2, s1.lr, g.db2)]
  IN  IF ~InPlaceOk(s2.W1, g.dW1) THEN Outcome(s2, "ValueError", Unset)
  ELSE LET s3 == [s2 EXCEPT !.W1 = BAdd(s2.W1, Times(s2.lr, g.dW1))]
  IN  IF ~InPlaceOk(s3.b1, g.db1) THEN Outcome(s3, "ValueError", Unset)
  ELSE LET s4 == [s3 EXCEPT !.b1 = step(s3.b1, s3.lr, g.db1)]
  IN  Outcome([s4 EXCEPT !.gradients = g], "none", Unset)

\* MLP.backward, lines 63-74: the four in-place updates, in the code's order,
\* then the gradients kept for the visualization
update_params(self, g) ==
  IF ~InPlaceOk(self.W2, g.dW2) THEN Outcome(self, "ValueError", Unset)
  ELSE LET s1 == [self EXCEPT !.W2 = step(self.W2, self.lr, g.dW2)]
  IN  IF ~InPlaceOk(s1.b2, g.db2) THEN Outcome(s1, "ValueError", Unset)
  ELSE LET s2 == [s1 EXCEPT !.b2 = step(s1.b2, s1.lr, g.db2)]
  IN  IF ~InPlaceOk(s2.W1, g.dW1) THEN Outcome(s2, "ValueError", Unset)
  ELSE LET s3 == [s2 EXCEPT !.W1 = step(s2.W1, s2.lr, g.dW1)]
  IN  IF ~InPlaceOk(s3.b1, g.db1) THEN Outcome(s3, "ValueError", Unset)
  ELSE LET s4 == [s3 EXCEPT !.b1 = step(s3.b1, s3.lr, g.db1)]
  IN  Outcome([s4 EXCEPT !.gradients = g], "none", Unset)

\* faulty variant: W2 and b2 are updated before delta1 is computed
backward_update_first(self, X, y) ==
  LET o == output_grads(self, X, y)
  IN  IF o.raised # "none" THEN Outcome(self, o.raised, Unset)
      ELSE LET s1 == [self EXCEPT !.W2 = step(self.W2, self.lr, o.dW2),
                                  !.b2 = step(self.b2, self.lr, o.db2)]
               h == hidden_grads(s1, X, o.delta2)
           IN  IF h.raised # "none" THEN Outcome(s1, h.raised, Unset)
               ELSE Outcome([s1 EXCEPT !.W1 = step(s1.W1, s1.lr, h.dW1),
                                       !.b1 = step(s1.b1, s1.lr, h.db1),
                                       !.gradients =
                                          [dW1 |-> h.dW1, db1 |-> h.db1,
                                           dW2 |-> o.dW2, db2 |-> o.db2]],
                            "none", Unset)

\* MLP.backward
backward(self, X, y) ==
  LET o == output_grads(self, X, y)
  IN  IF o.raised # "none" THEN Outcome(self, o.raised, Unset)
      ELSE LET h == hidden_grads(self, X, o.delta2)
           IN  IF h.raised # "none" THEN Outcome(self, h.raised, Unset)
               ELSE update_params(self, [dW1 |-> h.dW1, db1 |-> h.db1,
                                         dW2 |-> o.dW2, db2 |-> o.db2])

\* generate_data(n_samples): seeded points and their circular-boundary labels
generate_data(n_samples) ==
  LET X == randn(n_samples, 2, 0)
  IN  [X |-> X,
       y |-> [i \in 1..n_samples |->
                << IF Mul(X[i][1], X[i][1]) + Mul(X[i][2], X[i][2]) > One
                   THEN One ELSE 0 - One >>]]

\* ------------------------------------------------------------- the state
VARIABLES
  mlp,       \* the MLP instance (NoInstance until a constructor returns)
  args,      \* the arguments of the constructor call that returned the instance
  last,      \* the latest call: its arguments, the instance before it, how it ended
  ncalls,    \* forward/backward calls made so far
  pc,        \* where the driver is: "api" (a caller of the class) or a place in visualize
  step_num,  \* visualize's step_num
  frame,     \* frames rendered so far
  iter,      \* iterations of update's training loop done in the current frame
  stmt       \* the statement of the loop body that runs next

vars == <<mlp, args, last, ncalls, pc, step_num, frame, iter, stmt>>

NoArgs == [input_dim |-> 0, hidden_dim |-> 0, output_dim |-> 0, lr |-> 0,
           activation |-> ""]
Args(input_dim, hidden_dim, output_dim, lr, kind) ==
  [input_dim |-> input_dim, hidden_dim |-> hidden_dim, output_dim |-> output_dim,
   lr |-> lr, activation |-> kind]
NoCall == [op |-> "none", X |-> Unset, y |-> Unset, pre |-> NoInstance,
           raised |-> "none", ret |-> Unset, prevOp |-> "none", prevX |-> Unset,
           kind |-> ""]

\* the record of a call that has just ended with outcome o
Call(op, X, y, o, kind) ==
  [op |-> op, X |-> X, y |-> y, pre |-> mlp, raised |-> o.raised, ret |-> o.ret,
   prevOp |-> last.op, prevX |-> last.X, kind |-> kind]

\* ------------------------------------------------- a caller of the class
\* Inputs a caller passes.  Batches of 1..MaxRows rows: the all-zero row
\* and the seeded sample points; labels of 1..MaxRows rows.
Dims == { <<2, 3, 1>>, <<1, 2, 2>> }
LearningRates == { Milli(100) }
ActivationArgs == Kinds \cup {"linear"}
Batches(input_dim) ==
  { zeros(1, input_dim) } \cup { randn(n, input_dim, 0) : n \in 1..MaxRows }
Labels(output_dim) ==
  { [i \in 1..n |-> [j \in 1..output_dim |->
        IF (i + j) % 2 = 0 THEN 0 - One ELSE One]] : n \in 1..MaxRows }

Constructed == mlp # NoInstance

Construct ==
  /\ pc = "api" /\ ~Constructed
  /\ \E d \in Dims, lr \in LearningRates, a \in ActivationArgs :
       LET o == MLP(d[1], d[2], d[3], lr, a)
       IN  /\ mlp' = o.self
           /\ args' = IF o.raised = "none" THEN Args(d[1], d[2], d[3], lr, a) ELSE NoArgs
           /\ last' = Call("init", Unset, Unset, o, a)
  /\ UNCHANGED <<ncalls, pc, step_num, frame, iter, stmt>>

Forward ==
  /\ pc = "api" /\ Constructed /\ ncalls < MaxCalls
  /\ \E X \in Batches(args.input_dim) :
       LET o == forward(mlp, X)
       IN  /\ mlp' = o.self
           /\ last' = Call("forward", X, Unset, o, mlp.activation_fn)
  /\ ncalls' = ncalls + 1
  /\ UNCHANGED <<args, pc, step_num, frame, iter, stmt>>

Backward ==
  /\ pc = "api" /\ Constructed /\ ncalls < MaxCalls
  /\ \E X \in Batches(args.input_dim), y \in Labels(args.output_dim) :
       LET o == backward(mlp, X, y)
       IN  /\ mlp' = o.self
           /\ last' = Call("backward", X, y, o, mlp.activation_fn)
  /\ ncalls' = ncalls + 1
  /\ UNCHANGED <<args, pc, step_num, frame, iter, stmt>>

Init ==
  /\ mlp = NoInstance /\ args = NoArgs /\ last = NoCall /\ ncalls = 0
  /\ pc = "api" /\ step_num = 0 /\ frame = 0 /\ iter = 0 /\ stmt = 0

Next == Construct \/ Forward \/ Backward

Spec == Init /\ [][Next]_vars

\* ------------------------------------------------- visualize and update
TrainStepsPerFrame == 10

\* faulty variants: a loop body without the backward call, and one that
\* calls backward before forward
train_body_no_backward == << "forward" >>
train_body_swapped == << "backward", "forward" >>
\* the body of update's training loop, statement by statement (lines 92-93)
train_body == << "forward", "backward" >>

\* X, y = generate_data(), and the plotting grid of line 133-134:
\* np.c_[xx.ravel(), yy.ravel()] over linspace(-3, 3, GridN) on both axes
TrainX == generate_data(NSamples).X
TrainY == generate_data(NSamples).y
linspace(j) == 0 - 3 * One + Rnd(6 * One * (j - 1), GridN - 1)
grid == [r \in 1..(GridN * GridN) |->
           << linspace(((r - 1) % GridN) + 1), linspace(((r - 1) \div GridN) + 1) >>]

\* where the training loop goes after the statement at stmt
AfterStmt ==
  IF stmt < Len(train_body)
  THEN /\ stmt' = stmt + 1 /\ iter' = iter /\ pc' = "train"
  ELSE /\ stmt' = 1
       /\ iter' = iter + 1
       /\ pc' = IF iter + 1 = TrainStepsPerFrame THEN "plot" ELSE "train"

\* visualize(activation, lr, step_num) up to the first frame (lines 189-200)
Visualize ==
  /\ pc = "main"
  /\ \E a \in ActivationArgs, lr \in LearningRates, f \in 1..MaxFrames :
       LET o == MLP(2, 3, 1, lr, a)
       IN  /\ mlp' = o.self
           /\ args' = IF o.raised = "none" THEN Args(2, 3, 1, lr, a) ELSE NoArgs
           /\ last' = Call("init", Unset, Unset, o, a)
           /\ step_num' = TrainStepsPerFrame * f
           /\ pc' = IF o.raised = "none" THEN "train" ELSE "aborted"
  /\ frame' = 0 /\ iter' = 0 /\ stmt' = 1
  /\ UNCHANGED ncalls

\* update, line 92: mlp.forward(X)
TrainForward ==
  /\ pc = "train" /\ train_body[stmt] = "forward"
  /\ LET o == forward(mlp, TrainX)
     IN  /\ mlp' = o.self
         /\ last' = Call("forward", TrainX, Unset, o, mlp.activation_fn)
         /\ IF o.raised = "none" THEN AfterStmt
            ELSE pc' = "aborted" /\ UNCHANGED <<iter, stmt>>
  /\ ncalls' = ncalls + 1
  /\ UNCHANGED <<args, step_num, frame>>

\* update, line 93: mlp.backward(X, y)
TrainBackward ==
  /\ pc = "train" /\ train_body[stmt] = "backward"
  /\ LET o == backward(mlp, TrainX, TrainY)
     IN  /\ mlp' = o.self
         /\ last' = Call("backward", TrainX, TrainY, o, mlp.activation_fn)
         /\ IF o.raised = "none" THEN AfterStmt
            ELSE pc' = "aborted" /\ UNCHANGED <<iter, stmt>>
  /\ ncalls' = ncalls + 1
  /\ UNCHANGED <<args, step_num, frame>>

\* update, line 135: Z = mlp.forward(grid); the frame ends, and FuncAnimation
\* calls update again until step_num // 10 frames are drawn
PlotForward ==
  /\ pc = "plot"
  /\ LET o == forward(mlp, grid)
     IN  /\ mlp' = o.self
         /\ last' = Call("forward", grid, Unset, o, mlp.activation_fn)
         /\ pc' = IF o.raised # "none" THEN "aborted"
                  ELSE IF frame + 1 = step_num \div TrainStepsPerFrame THEN "saved"
                  ELSE "train"
  /\ frame' = frame + 1 /\ iter' = 0 /\ stmt' = 1
  /\ ncalls' = ncalls + 1
  /\ UNCHANGED <<args, step_num>>

InitVis ==
  /\ mlp = NoInstance /\ args = NoArgs /\ last = NoCall /\ ncalls = 0
  /\ pc = "main" /\ step_num = 0 /\ frame = 0 /\ iter = 0 /\ stmt = 0

NextVis == Visualize \/ TrainForward \/ TrainBackward \/ PlotForward

SpecVis == InitVis /\ [][NextVis]_vars

\* ============================================================== claims
Params(self) == <<self.W1, self.b1, self.W2, self.b2>>
Cache(self) == <<self.z1, self.a1, self.z2, self.a2>>
BackwardDone == last.op = "backward" /\ last.raised = "none"
ForwardDone == last.op = "forward" /\ last.raised = "none"
\* the call before the latest one was a forward on the same X
PairedWithForward == last.prevOp = "forward" /\ last.prevX = last.X
\* P is P0 minus lr times G, element by element, G having P0's shape
SteppedBy(P, P0, lr, G) ==
  /\ shape(G) = shape(P0) /\ shape(P) = shape(P0)
  /\ \A i \in 1..Rows(P0) : \A j \in 1..Cols(P0) :
       P[i][j] = P0[i][j] - Mul(lr, G[i][j])

\* C1: a backward(X, y) that follows forward(X) and whose y has a row count
\* other than X's fails with numpy's shape error (ValueError) and leaves
\* W1, b1, W2, b2 as they were.
C1_MismatchedLabelsRejected ==
  (last.op = "backward" /\ PairedWithForward /\ Rows(last.y) # Rows(last.X))
    => (last.raised = "ValueError" /\ Params(mlp) = Params(last.pre))

\* C2: after a backward that completes, every parameter is its value before
\* the call minus lr times the gradient the call stored, element by element.
C2_UpdateIsLrTimesStoredGradient ==
  BackwardDone =>
    /\ SteppedBy(mlp.W1, last.pre.W1, last.pre.lr, mlp.gradients.dW1)
    /\ SteppedBy(mlp.b1, last.pre.b1, last.pre.lr, mlp.gradients.db1)
    /\ SteppedBy(mlp.W2, last.pre.W2, last.pre.lr, mlp.gradients.dW2)
    /\ SteppedBy(mlp.b2, last.pre.b2, last.pre.lr, mlp.gradients.db2)

C2_Witness ==
  /\ BackwardDone
  /\ mlp.W1 # last.pre.W1 /\ mlp.b1 # last.pre.b1
  /\ mlp.W2 # last.pre.W2 /\ mlp.b2 # last.pre.b2

\* C3: a backward(X, y) that is not immediately preceded by a forward on the
\* same X is rejected and leaves the parameters unchanged.
C3_UnpairedBackwardRejected ==
  (last.op = "backward" /\ ~PairedWithForward)
    => (last.raised # "none" /\ Params(mlp) = Params(last.pre))

\* C4: forward(X) changes nothing but the cache: the parameters, the
\* learning rate, the activation choice and the stored gradients stay, the
\* cache becomes Z1 = X.W1 + b1, A1 = phi(Z1), Z2 = A1.W2 + b2, A2 = phi(Z2)
\* of the current parameters, and A2 is what the call returns.
C4_ForwardOnlyFillsCache ==
  ForwardDone =>
    LET p == last.pre
        z1 == BAdd(dot(last.X, p.W1), p.b1)
        a1 == act(p.activation_fn, z1)
        z2 == BAdd(dot(a1, p.W2), p.b2)
        a2 == act(p.activation_fn, z2)
    IN  /\ Params(mlp) = Params(p)
        /\ mlp.lr = p.lr /\ mlp.activation_fn = p.activation_fn
        /\ mlp.gradients = p.gradients
        /\ Cache(mlp) = <<z1, a1, z2, a2>>
        /\ last.ret = mlp.a2

C4_Witness ==
  /\ ForwardDone
  /\ last.pre.gradients # NoGradients
  /\ last.pre.a2 # Unset /\ Cache(mlp) # Cache(last.pre)
  /\ last.pre.b1 # zeros(1, args.hidden_dim)

\* C5: a constructor call with an activation outside {tanh, relu, sigmoid}
\* raises and leaves no instance; with one of the three it returns an
\* instance with all-zero biases, whose activation and learning rate are the
\* constructor's arguments after every later forward and backward.
C5_ActivationCheckedAtConstruction ==
  /\ (last.op = "init" /\ last.kind \notin Kinds)
       => (last.raised = "ValueError" /\ ~Constructed /\ args = NoArgs)
  /\ (last.op = "init" /\ last.kind \in Kinds)
       => /\ last.raised = "none" /\ Constructed
          /\ mlp.b1 = zeros(1, args.hidden_dim)
          /\ mlp.b2 = zeros(1, args.output_dim)
  /\ Constructed
       => (mlp.activation_fn = args.activation /\ mlp.lr = args.lr
           /\ args.activation \in Kinds)

C5_Witness ==
  last.op = "init" /\ last.kind = "linear" /\ last.raised = "ValueError"

\* C6: on a fresh MLP(2, 3, 1, lr=0.1, relu), forward([[0,0]]) returns 0 and
\* the backward([[0,0]], [[-1]]) that follows stores db2 = 1, dW2 = 0,
\* dW1 = 0, db1 = 0, leaving b2 = -0.1 and W1, b1, W2 unchanged.
C6_Fresh == /\ args = Args(2, 3, 1, Milli(100), "relu")
            /\ last.X = zeros(1, 2)
C6_ReluZeroScenario ==
  /\ (C6_Fresh /\ ncalls = 1 /\ last.op = "forward")
       => (last.raised = "none" /\ last.ret = << <<0>> >>)
  /\ (C6_Fresh /\ ncalls = 2 /\ last.op = "backward" /\ PairedWithForward
        /\ last.y = << <<0 - One>> >>)
       => /\ last.raised = "none"
          /\ mlp.gradients = [dW1 |-> zeros(2, 3), db1 |-> zeros(1, 3),
                              dW2 |-> zeros(3, 1), db2 |-> << <<One>> >>]
          /\ mlp.b2 = << <<0 - Milli(100)>> >>
          /\ mlp.W1 = last.pre.W1 /\ mlp.b1 = last.pre.b1
          /\ mlp.W2 = last.pre.W2

C6_Witness ==
  /\ C6_Fresh /\ ncalls = 2 /\ last.op = "backward" /\ PairedWithForward
  /\ last.y = << <<0 - One>> >> /\ mlp.b2 = << <<0 - Milli(100)>> >>
  /\ \A r \in 1..3 : mlp.W2[r][1] # 0

\* C8: the parameters keep the shapes the constructor gave them, forward on
\* N rows returns N x output_dim, and each stored gradient has its
\* parameter's shape, whatever the row counts of the batches.
C8_ShapesKept ==
  Constructed =>
    /\ shape(mlp.W1) = <<args.input_dim, args.hidden_dim>>
    /\ shape(mlp.b1) = <<1, args.hidden_dim>>
    /\ shape(mlp.W2) = <<args.hidden_dim, args.output_dim>>
    /\ shape(mlp.b2) = <<1, args.output_dim>>
    /\ ForwardDone => shape(last.ret) = <<Rows(last.X), args.output_dim>>
    /\ mlp.gradients # NoGradients =>
         /\ shape(mlp.gradients.dW1) = shape(mlp.W1)
         /\ shape(mlp.gradients.db1) = shape(mlp.b1)
         /\ shape(mlp.gradients.dW2) = shape(mlp.W2)
         /\ shape(mlp.gradients.db2) = shape(mlp.b2)

C8_Witness ==
  /\ ForwardDone /\ mlp.gradients # NoGradients
  /\ Rows(last.X) > 1 /\ Rows(last.pre.a2) # Rows(last.X)
  /\ args.hidden_dim # args.output_dim

\* C9: the gradients of one backward are all computed from the parameters
\* the call started with (delta1 from the W2 of the preceding forward), and
\* a backward that raises while computing them changes no parameter.
C9_GradientsBeforeUpdate ==
  /\ BackwardDone =>
       LET p == last.pre
           m == Rows(last.X)
           delta2 == BSub(p.a2, last.y)
           delta1 == BMul(dot(delta2, T(p.W2)), act_prime(p.activation_fn, p.z1))
       IN  /\ mlp.gradients.dW2 = DivBy(dot(T(p.a1), delta2), m)
           /\ mlp.gradients.db2 = DivBy(sum_axis0(delta2), m)
           /\ mlp.gradients.dW1 = DivBy(dot(T(last.X), delta1), m)
           /\ mlp.gradients.db1 = DivBy(sum_axis0(delta1), m)
  /\ (last.op = "backward" /\ last.raised # "none")
       => Params(mlp) = Params(last.pre)

C9_Witness ==
  /\ BackwardDone /\ mlp.W2 # last.pre.W2
  /\ mlp.gradients.dW1 # zeros(args.input_dim, args.hidden_dim)

\* C1, the part the code keeps: a mismatched y of more than one row raises
\* and changes nothing; only a one-row y is broadcast over the batch.
C1_RaisesUnlessSingleRow ==
  (last.op = "backward" /\ PairedWithForward /\ Rows(last.y) # Rows(last.X)
     /\ Rows(last.y) > 1)
    => (last.raised = "ValueError" /\ Params(mlp) = Params(last.pre))

\* C7 as stated: in the animation no forward call directly follows another
\* forward call; a backward lies between any two of them.
C7_StrictAlternation == last.op = "forward" => last.prevOp # "forward"

\* C7 as amended: every forward on the training batch X is followed by a
\* backward on the same X before any other call, and two forward calls in a
\* row happen only at a frame boundary: the forward on the plotting grid,
\* then the next frame's first forward on X.
C7_TrainForwardPaired ==
  /\ [](last.op = "forward" /\ last.prevOp = "forward"
          => last.prevX = grid /\ last.X = TrainX /\ iter = 0 /\ frame > 0)
  /\ [][(last.op = "forward" /\ last.X = TrainX)
          => (last'.op = "backward" /\ last'.X = TrainX)]_vars

C7_Witness ==
  /\ last.op = "forward" /\ last.prevOp = "forward"
  /\ last.prevX = grid /\ last.X = TrainX /\ frame = 1

\* C10: in the animation every backward(X, y) directly follows a forward on
\* the same training batch X, so the cache it reads holds the activations of
\* X under the parameters it is about to update, although each frame ends
\* with a forward on the grid, a batch of another row count.
C10_BackwardReadsFreshCache ==
  last.op = "backward" =>
    /\ PairedWithForward /\ last.X = TrainX /\ last.y = TrainY
    /\ last.raised = "none"
    /\ shape(last.pre.a2) = <<Rows(TrainX), args.output_dim>>
    /\ LET p == last.pre
           z1 == BAdd(dot(TrainX, p.W1), p.b1)
           a1 == act(p.activation_fn, z1)
           z2 == BAdd(dot(a1, p.W2), p.b2)
       IN  Cache(p) = <<z1, a1, z2, act(p.activation_fn, z2)>>

C10_Witness ==
  /\ last.op = "backward" /\ frame >= 1 /\ iter = 1
  /\ Rows(grid) # Rows(TrainX)
  /\ Params(mlp) # Params(last.pre)

=============================================================================
